---- MODULE Spec2Model ----
(***************************************************************************)
(* Model of scripts/openai_assistant.py: one run of the CI assistant.      *)
(* The run loads the event, dispatches to the pull-request or the issue    *)
(* handler, gathers changed files and snippets, builds the prompt, calls   *)
(* the completion API with retries, and posts a comment plus a label.      *)
(* Every external call is a step whose outcome (success, failure, value)   *)
(* is chosen nondeterministically and recorded in `calls`.                 *)
(***************************************************************************)
EXTENDS Integers, Sequences, FiniteSets, TLC

\* ------------------------------------------------------------------ bounds
MaxRetryAttempts == 3
MaxChangedFiles == 2
MaxSnippetFiles == 1
MaxSnippetLines == 5

\* ------------------------------------------------- optional values, texts
\* An optional value is a sequence of length at most one: <<>> is None / a
\* missing key, <<v>> is the value v.
None == <<>>
Some(v) == <<v>>
Get(o) == o[1]
GetOr(o, d) == IF o = <<>> THEN d ELSE o[1]

Min(a, b) == IF a <= b THEN a ELSE b

\* lines[:n] for n >= 0
Take(s, n) == SubSeq(s, 1, Min(n, Len(s)))

\* sep.join(parts)
RECURSIVE Join(_, _)
Join(parts, sep) ==
  IF parts = <<>> THEN ""
  ELSE IF Len(parts) = 1 THEN parts[1]
  ELSE parts[1] \o sep \o Join(Tail(parts), sep)

\* base ** k for integers k >= 0
RECURSIVE Pow(_, _)
Pow(base, k) == IF k <= 0 THEN 1 ELSE base * Pow(base, k - 1)

\* [f(s[1]), ..., f(s[n])] as "- <item>" bullets
Bullets(s) == [i \in 1..Len(s) |-> "- " \o s[i]]

\* ------------------------------------------------------------- templates
\* A template string is a sequence of parts: literal text, a replacement
\* field {name}, or a malformed piece (a stray brace).  The empty sequence
\* is the empty string.
Lit(t) == [kind |-> "lit", val |-> t]
Field(n) == [kind |-> "field", val |-> n]
Stray == [kind |-> "stray", val |-> "{"]

\* str.format(**kwargs): raises (ok = FALSE) on a stray brace or on a field
\* that is not among the keyword arguments, else substitutes every field.
RECURSIVE Substitute(_, _)
Substitute(template, kwargs) ==
  IF template = <<>> THEN ""
  ELSE LET p == Head(template)
       IN (IF p.kind = "lit" THEN p.val ELSE kwargs[p.val])
          \o Substitute(Tail(template), kwargs)

FormatRaises(template, kwargs) ==
  \E i \in 1..Len(template) :
     \/ template[i].kind = "stray"
     \/ template[i].kind = "field" /\ template[i].val \notin DOMAIN kwargs

Format(template, kwargs) ==
  IF FormatRaises(template, kwargs)
  THEN [ok |-> FALSE, text |-> ""]
  ELSE [ok |-> TRUE, text |-> Substitute(template, kwargs)]

\* ------------------------------------------------------- prompt builders
DefaultPrSystem == "You are a cautious, security-minded coding assistant. Prioritize human review and be concise."
DefaultIssueSystem == "You are a careful triage assistant. Request reproduction steps and emphasize security when relevant."
PrTaskSentence == "\n\nTask: Write a concise, reviewer-friendly PR description and a focused reviewer checklist. Highlight any security-sensitive files and recommend manual checks."
IssueTaskSentence == "\n\nTask: Triage this issue, suggest severity and next steps."

Message(role, content) == [role |-> role, content |-> content]

\* "\n".join(f"- {p}" for p in changed_files) if changed_files else ...
ChangedFilesList(changed_files) ==
  IF changed_files # <<>> THEN Join(Bullets(changed_files), "\n")
  ELSE "No file list available."

\* the two lines appended per snippet, in the mapping's insertion order
RECURSIVE SnippetLines(_)
SnippetLines(snippets) ==
  IF snippets = <<>> THEN <<>>
  ELSE << "--- " \o snippets[1].path \o " ---",
          IF snippets[1].snippet # "" THEN snippets[1].snippet
          ELSE "(no snippet available)" >>
       \o SnippetLines(Tail(snippets))

ContextBlock(changed_files, snippets, config) ==
  Join( << "Changed files (top-level list):", ChangedFilesList(changed_files),
           "", "Sensitive path patterns:" >>
        \o Bullets(config.sensitive_paths)
        \o (IF snippets # <<>>
            THEN << "\nSnippets from changed files (limited):" >>
                 \o SnippetLines(snippets)
            ELSE <<>>),
        "\n" )

PrKwargs(title, body, changed_files, repo_full, pr_number) ==
  [ title |-> title, body |-> body,
    changed_files_list |-> ChangedFilesList(changed_files),
    repo_full |-> repo_full, pr_number |-> ToString(pr_number) ]

PrUserContent(title, body, changed_files, repo_full, pr_number, config) ==
  LET base == "PR title: " \o title \o "\n\nPR body:\n" \o body
              \o "\n\nChanged files:\n" \o ChangedFilesList(changed_files)
      f == Format(config.pr_prompt,
                  PrKwargs(title, body, changed_files, repo_full, pr_number))
  IN IF config.pr_prompt # <<>>
     THEN (IF f.ok THEN f.text ELSE base)
     ELSE base \o PrTaskSentence

\* The context message put ahead of the system message.
build_pr_prompt_ContextFirst(title, body, changed_files, snippets, repo_full, pr_number, config) ==
  [ raised |-> FALSE,
    messages |->
      << Message("user", ContextBlock(changed_files, snippets, config)),
         Message("system", GetOr(config.system_prompt, DefaultPrSystem)),
         Message("user", PrUserContent(title, body, changed_files, repo_full,
                                       pr_number, config)) >> ]

build_pr_prompt(title, body, changed_files, snippets, repo_full, pr_number, config) ==
  [ raised |-> FALSE,
    messages |->
      << Message("system", GetOr(config.system_prompt, DefaultPrSystem)),
         Message("user", ContextBlock(changed_files, snippets, config)),
         Message("user", PrUserContent(title, body, changed_files, repo_full,
                                       pr_number, config)) >> ]

IssueKwargs(title, body, repo_full, issue_number) ==
  [ title |-> title, body |-> body, repo_full |-> repo_full,
    issue_number |-> ToString(issue_number) ]

IssueUserContent(title, body, repo_full, issue_number, config) ==
  LET base == "Issue title: " \o title \o "\n\nBody:\n" \o body
              \o IssueTaskSentence
      f == Format(config.issue_prompt,
                  IssueKwargs(title, body, repo_full, issue_number))
  IN IF config.issue_prompt # <<>>
     THEN (IF f.ok THEN f.text ELSE base)
     ELSE base

build_issue_prompt(title, body, repo_full, issue_number, config) ==
  [ raised |-> FALSE,
    messages |->
      << Message("system", GetOr(config.system_prompt, DefaultIssueSystem)),
         Message("user", IssueUserContent(title, body, repo_full,
                                          issue_number, config)) >> ]

\* ------------------------------------------------------------ input data
\* An entity is the record under the payload's `pull_request` or `issue`
\* key; each of its fields may be missing.
FullEntity == [title |-> Some("Crash on startup"), body |-> Some(""), number |-> Some(42)]
BareEntity == [title |-> None, body |-> None, number |-> None]
Entities == {FullEntity, BareEntity}

Payloads ==
  [ pull_request : {None} \cup {Some(e) : e \in Entities},
    issue : {None} \cup {Some(e) : e \in Entities},
    full_name : {None, Some("acme/widget")} ]

\* json.load failed: event = {}
EmptyEvent == [pull_request |-> None, issue |-> None, full_name |-> None]

\* .github/assistant-config.yaml as loaded; a missing key is None / <<>>.
NoConfig ==
  [ system_prompt |-> None, pr_prompt |-> <<>>, issue_prompt |-> <<>>,
    sensitive_paths |-> <<>>, max_file_snippet_lines |-> None ]
GoodPrTemplate ==
  << Lit("Review "), Field("repo_full"), Lit("#"), Field("pr_number"),
     Lit(": "), Field("title"), Lit("\n"), Field("changed_files_list") >>
GoodIssueTemplate ==
  << Lit("Triage "), Field("repo_full"), Lit("#"), Field("issue_number"),
     Lit(": "), Field("title"), Lit("\n"), Field("body") >>
GoodConfig ==
  [ system_prompt |-> Some("Be terse."), pr_prompt |-> GoodPrTemplate,
    issue_prompt |-> GoodIssueTemplate, sensitive_paths |-> << "secrets/*" >>,
    max_file_snippet_lines |-> Some(2) ]
\* pr_prompt names a field only the issue template gets, and vice versa
SwappedConfig ==
  [ system_prompt |-> None, pr_prompt |-> GoodIssueTemplate,
    issue_prompt |-> GoodPrTemplate, sensitive_paths |-> <<>>,
    max_file_snippet_lines |-> Some(1) ]
Configs == {NoConfig, GoodConfig, SwappedConfig}

\* The pull request's files as the hosting service lists them: the i-th
\* file carries a patch when i is odd, and only its content otherwise.
RemoteFile(i) ==
  [ filename |-> "src/f" \o ToString(i) \o ".py",
    patch |-> IF i % 2 = 1 THEN Some(<< "@@ -1,2 +1,2 @@", "-old", "+new" >>)
              ELSE None,
    content |-> << "import os", "", "print(1)" >> ]
RemoteFiles(n) == [i \in 1..n |-> RemoteFile(i)]

\* Raw completion replies before .strip(): leading blank, text, trailing blank
Replies ==
  { [lead |-> " ", text |-> "Likely a null dereference; request logs.", trail |-> "\n"],
    [lead |-> "", text |-> "", trail |-> "\n"] }
Strip(raw) == raw.text

\* ------------------------------------------------------------------ state
VARIABLES
  eventFile,          \* GITHUB_EVENT_PATH: "missing", "unparsable" or "ok"
  payload,            \* the JSON in the event file
  GITHUB_TOKEN,       \* TRUE iff a hosting-service credential is set
  OPENAI_API_KEY,     \* TRUE iff a model credential is set
  RETRY_ATTEMPTS,
  RETRY_BACKOFF,
  MAX_SNIPPET_FILES,
  assistant_config,
  event,              \* the parsed payload
  pc,                 \* position of the run
  handlers,           \* handlers main() has invoked, in order
  repo_obj,           \* TRUE iff handle_pull_request holds a repository
  changed_files,
  snippets,           \* sequence of [path, snippet], in insertion order
  path_idx,           \* position of the snippet loop in changed_files[:m]
  messages,
  attempt,
  last_exc,           \* TRUE iff call_openai_chat has recorded a failure
  suggestion,         \* optional text returned by call_openai_chat
  resp,               \* optional raw reply of the completion call that succeeded
  comment,            \* body handed to safe_post_comment_and_label
  calls,              \* external calls made so far, in order
  posted,             \* comments created on the hosting service
  exit_code           \* None while running, else Some(status)

inputs ==
  << eventFile, payload, GITHUB_TOKEN, OPENAI_API_KEY, RETRY_ATTEMPTS,
     RETRY_BACKOFF, MAX_SNIPPET_FILES, assistant_config >>
prState == << repo_obj, changed_files, snippets, path_idx >>
chatState == << attempt, last_exc, suggestion, resp >>
vars ==
  << inputs, event, pc, handlers, prState, messages, chatState, comment,
     calls, posted, exit_code >>

Call(op, ok, arg) == [op |-> op, ok |-> ok, arg |-> arg]

Started ==
  /\ event = EmptyEvent
  /\ pc = "load"
  /\ handlers = <<>>
  /\ repo_obj = FALSE
  /\ changed_files = <<>>
  /\ snippets = <<>>
  /\ path_idx = 1
  /\ messages = <<>>
  /\ attempt = 0
  /\ last_exc = FALSE
  /\ suggestion = None
  /\ resp = None
  /\ comment = ""
  /\ calls = <<>>
  /\ posted = <<>>
  /\ exit_code = None

Init ==
  /\ eventFile \in {"missing", "unparsable", "ok"}
  /\ payload \in Payloads
  /\ eventFile # "ok" => payload = EmptyEvent
  /\ GITHUB_TOKEN \in BOOLEAN
  /\ OPENAI_API_KEY \in BOOLEAN
  /\ RETRY_ATTEMPTS \in 0..MaxRetryAttempts
  /\ RETRY_BACKOFF \in {2, 3}
  /\ MAX_SNIPPET_FILES \in 0..MaxSnippetFiles
  /\ assistant_config \in Configs
  /\ Started

Exit(status) == pc' = "done" /\ exit_code' = Some(status)

\* ---------------------------------------------------------------- actions
\* Module level: without an event file the process exits 0; a file that
\* does not parse leaves event = {}.
\* The parse failure left uncaught: the process dies with status 1.
LoadEvent_ParseFatal ==
  /\ pc = "load"
  /\ IF eventFile = "missing"
     THEN Exit(0) /\ UNCHANGED event
     ELSE IF eventFile = "unparsable"
     THEN Exit(1) /\ UNCHANGED event
     ELSE /\ event' = payload
          /\ pc' = "main"
          /\ UNCHANGED exit_code
  /\ UNCHANGED << inputs, handlers, prState, messages, chatState, comment,
                  calls, posted >>

LoadEvent ==
  /\ pc = "load"
  /\ IF eventFile = "missing"
     THEN Exit(0) /\ UNCHANGED event
     ELSE /\ event' = (IF eventFile = "ok" THEN payload ELSE EmptyEvent)
          /\ pc' = "main"
          /\ UNCHANGED exit_code
  /\ UNCHANGED << inputs, handlers, prState, messages, chatState, comment,
                  calls, posted >>

\* The issue key looked up before the pull_request key.
Dispatch_IssueFirst(ev) ==
  IF ev.issue # None THEN "issue"
  ELSE IF ev.pull_request # None THEN "pr"
  ELSE "none"

\* main(): the pull_request key is looked up first, then the issue key.
Dispatch(ev) ==
  IF ev.pull_request # None THEN "pr"
  ELSE IF ev.issue # None THEN "issue"
  ELSE "none"

\* main() treating an unrecognized event as an error, as its except clause does.
Main_UnrecognizedFails ==
  /\ pc = "main"
  /\ LET d == Dispatch(event)
     IN IF d = "none"
        THEN Exit(1) /\ UNCHANGED handlers
        ELSE /\ handlers' = Append(handlers, d)
             /\ pc' = (IF d = "pr" THEN "pr_start" ELSE "issue_start")
             /\ UNCHANGED exit_code
  /\ UNCHANGED << inputs, event, prState, messages, chatState, comment,
                  calls, posted >>

Main ==
  /\ pc = "main"
  /\ LET d == Dispatch(event)
     IN IF d = "none"
        THEN Exit(0) /\ UNCHANGED handlers
        ELSE /\ handlers' = Append(handlers, d)
             /\ pc' = (IF d = "pr" THEN "pr_start" ELSE "issue_start")
             /\ UNCHANGED exit_code
  /\ UNCHANGED << inputs, event, prState, messages, chatState, comment,
                  calls, posted >>

\* handle_pull_request, up to the repository lookup
HandlePullRequest ==
  /\ pc = "pr_start"
  /\ LET pr == GetOr(event.pull_request, BareEntity)
     IN IF event.full_name = None \/ pr.number = None
        THEN Exit(0)
        ELSE pc' = "pr_get_repo" /\ UNCHANGED exit_code
  /\ UNCHANGED << inputs, event, handlers, prState, messages, chatState,
                  comment, calls, posted >>

\* repo_obj = gh.get_repo(repo_full) if gh else None, outside any try
PrGetRepo ==
  /\ pc = "pr_get_repo"
  /\ IF ~GITHUB_TOKEN
     THEN /\ pc' = "pr_snippets"
          /\ UNCHANGED << repo_obj, calls, exit_code >>
     ELSE \E ok \in BOOLEAN :
            /\ calls' = Append(calls, Call("get_repo", ok, 0))
            /\ repo_obj' = ok
            /\ IF ok THEN pc' = "pr_fetch" /\ UNCHANGED exit_code
               ELSE Exit(1)
  /\ UNCHANGED << inputs, event, handlers, changed_files, snippets,
                  path_idx, messages, chatState, comment, posted >>

\* fetch_changed_files_for_pr: any failure gives []
fetch_changed_files_for_pr(outcome) ==
  IF outcome.kind = "listed"
  THEN [i \in 1..outcome.n |-> RemoteFile(i).filename]
  ELSE <<>>

FetchOutcomes ==
  {[kind |-> k, n |-> 0] : k \in {"pull_fails", "files_fail"}}
  \cup {[kind |-> "listed", n |-> n] : n \in 0..MaxChangedFiles}

FetchCalls(outcome) ==
  IF outcome.kind = "pull_fails" THEN << Call("get_pull", FALSE, 0) >>
  ELSE << Call("get_pull", TRUE, 0),
          Call("get_files", outcome.kind = "listed", 0) >>

FetchChangedFiles ==
  /\ pc = "pr_fetch"
  /\ \E outcome \in FetchOutcomes :
       /\ changed_files' = fetch_changed_files_for_pr(outcome)
       /\ calls' = calls \o FetchCalls(outcome)
  /\ pc' = "pr_snippets"
  /\ UNCHANGED << inputs, event, handlers, repo_obj, snippets, path_idx,
                  messages, chatState, comment, posted, exit_code >>

\* get_file_snippet_for_pr: the excerpt for file_path, "" on any failure or
\* when the listing has no record of that name.
DefaultSnippetLines == 40

\* The slice left out: the whole text is returned.
Excerpt_All(lines, max_lines) == Join(lines, "\n")

\* "\n".join(lines[:max_lines])
Excerpt(lines, max_lines) == Join(Take(lines, max_lines), "\n")

Matching(files, file_path) ==
  {i \in 1..Len(files) : files[i].filename = file_path}

get_file_snippet_for_pr(outcome, file_path, max_lines) ==
  IF outcome.kind # "listed" THEN ""
  ELSE LET files == RemoteFiles(outcome.n)
           m == Matching(files, file_path)
       IN IF m = {} THEN ""
          ELSE LET f == files[CHOOSE i \in m : \A j \in m : i <= j]
               IN IF f.patch # None THEN Excerpt(Get(f.patch), max_lines)
                  ELSE IF outcome.contents_ok
                       THEN Excerpt(f.content, max_lines)
                       ELSE ""

SnippetOutcomes ==
  {[kind |-> k, n |-> 0, contents_ok |-> FALSE] :
      k \in {"pull_fails", "files_fail"}}
  \cup [kind : {"listed"}, n : 0..MaxChangedFiles, contents_ok : BOOLEAN]

\* (a listing is recorded with 1 when it has a record named file_path)
SnippetCalls(outcome, file_path) ==
  IF outcome.kind = "pull_fails" THEN << Call("get_pull", FALSE, 0) >>
  ELSE << Call("get_pull", TRUE, 0),
          Call("get_files", outcome.kind = "listed",
               IF /\ outcome.kind = "listed"
                  /\ Matching(RemoteFiles(outcome.n), file_path) # {}
               THEN 1 ELSE 0) >>
       \o (IF /\ outcome.kind = "listed"
              /\ \E i \in Matching(RemoteFiles(outcome.n), file_path) :
                    /\ \A j \in Matching(RemoteFiles(outcome.n), file_path) : i <= j
                    /\ RemoteFiles(outcome.n)[i].patch = None
           THEN << Call("get_contents", outcome.contents_ok, 0) >>
           ELSE <<>>)

\* snippets[path] = value on an insertion-ordered mapping
DictSet(d, path, value) ==
  IF \E i \in 1..Len(d) : d[i].path = path
  THEN [i \in 1..Len(d) |->
          IF d[i].path = path THEN [path |-> path, snippet |-> value] ELSE d[i]]
  ELSE Append(d, [path |-> path, snippet |-> value])

\* The cap left out: every changed file gets a snippet.
SnippetPaths_All(files, m) == files

\* changed_files[:MAX_SNIPPET_FILES]
SnippetPaths(files, m) == Take(files, m)

\* one iteration of the snippet loop of handle_pull_request
SnippetStep ==
  /\ pc = "pr_snippets"
  /\ path_idx <= Len(SnippetPaths(changed_files, MAX_SNIPPET_FILES))
  /\ LET path == SnippetPaths(changed_files, MAX_SNIPPET_FILES)[path_idx]
         cap == GetOr(assistant_config.max_file_snippet_lines,
                      DefaultSnippetLines)
     IN \E outcome \in SnippetOutcomes :
          /\ snippets' = DictSet(snippets, path,
                                 get_file_snippet_for_pr(outcome, path, cap))
          /\ calls' = calls \o SnippetCalls(outcome, path)
  /\ path_idx' = path_idx + 1
  /\ UNCHANGED << inputs, event, handlers, repo_obj, changed_files, messages,
                  chatState, comment, posted, pc, exit_code >>

\* the loop is over: build_pr_prompt, then on to call_openai_chat
BuildPrPrompt ==
  /\ pc = "pr_snippets"
  /\ path_idx > Len(SnippetPaths(changed_files, MAX_SNIPPET_FILES))
  /\ LET pr == GetOr(event.pull_request, BareEntity)
         built == build_pr_prompt(GetOr(pr.title, ""), GetOr(pr.body, ""),
                                  changed_files, snippets,
                                  Get(event.full_name), Get(pr.number),
                                  assistant_config)
     IN IF built.raised
        THEN Exit(1) /\ UNCHANGED messages
        ELSE /\ messages' = built.messages
             /\ pc' = "chat_enter"
             /\ UNCHANGED exit_code
  /\ UNCHANGED << inputs, event, handlers, prState, chatState, comment,
                  calls, posted >>

\* handle_issue up to call_openai_chat
HandleIssue ==
  /\ pc = "issue_start"
  /\ LET issue == GetOr(event.issue, BareEntity)
     IN IF event.full_name = None \/ issue.number = None
        THEN Exit(0) /\ UNCHANGED messages
        ELSE LET built == build_issue_prompt(GetOr(issue.title, ""),
                                             GetOr(issue.body, ""),
                                             Get(event.full_name),
                                             Get(issue.number),
                                             assistant_config)
             IN IF built.raised
                THEN Exit(1) /\ UNCHANGED messages
                ELSE /\ messages' = built.messages
                     /\ pc' = "chat_enter"
                     /\ UNCHANGED exit_code
  /\ UNCHANGED << inputs, event, handlers, prState, chatState, comment,
                  calls, posted >>

\* ------------------------------------------------------- call_openai_chat
\* Entry: without a model credential the call is skipped and None returned.
ChatEnter ==
  /\ pc = "chat_enter"
  /\ IF ~OPENAI_API_KEY
     THEN /\ suggestion' = None
          /\ pc' = "after_chat"
          /\ UNCHANGED << attempt, last_exc, resp >>
     ELSE /\ attempt' = 1
          /\ last_exc' = FALSE
          /\ pc' = "chat_attempt"
          /\ UNCHANGED << suggestion, resp >>
  /\ UNCHANGED << inputs, event, handlers, prState, messages, comment,
                  calls, posted, exit_code >>

\* range(1, RETRY_ATTEMPTS + 2): one pass too many.
InRange_OneMore(a, n) == a <= n + 1

\* range(1, RETRY_ATTEMPTS) in place of range(1, RETRY_ATTEMPTS + 1).
InRange_Exclusive(a, n) == a < n

\* for attempt in range(1, RETRY_ATTEMPTS + 1): does the loop body run?
InRange(a, n) == a <= n

\* One pass of the loop body up to the except clause: the completion call
\* returns a reply (stripped and returned) or raises.
ChatAttempt ==
  /\ pc = "chat_attempt"
  /\ InRange(attempt, RETRY_ATTEMPTS)
  /\ \/ \E raw \in Replies :
          /\ calls' = Append(calls, Call("chat", TRUE, attempt))
          /\ resp' = Some(raw)
          /\ suggestion' = Some(Strip(raw))
          /\ pc' = "after_chat"
          /\ UNCHANGED last_exc
     \/ /\ calls' = Append(calls, Call("chat", FALSE, attempt))
        /\ last_exc' = TRUE
        /\ pc' = "chat_sleep"
        /\ UNCHANGED << suggestion, resp >>
  /\ UNCHANGED << inputs, event, handlers, prState, messages, attempt,
                  comment, posted, exit_code >>

\* A linear backoff in place of the exponential one.
Wait_Linear(backoff, a) == backoff * a

\* wait = RETRY_BACKOFF ** attempt
Wait(backoff, a) == Pow(backoff, a)

\* The except clause: sleep, then the loop moves to the next attempt number.
ChatSleep ==
  /\ pc = "chat_sleep"
  /\ calls' = Append(calls, Call("sleep", TRUE, Wait(RETRY_BACKOFF, attempt)))
  /\ attempt' = attempt + 1
  /\ pc' = "chat_attempt"
  /\ UNCHANGED << inputs, event, handlers, prState, messages, last_exc,
                  suggestion, resp, comment, posted, exit_code >>

\* After the loop: log and print the last exception, return None.  When no
\* attempt was made last_exc is None and last_exc.__traceback__ raises.
ChatExhausted ==
  /\ pc = "chat_attempt"
  /\ ~InRange(attempt, RETRY_ATTEMPTS)
  /\ IF last_exc
     THEN /\ suggestion' = None
          /\ pc' = "after_chat"
          /\ UNCHANGED exit_code
     ELSE Exit(1) /\ UNCHANGED suggestion
  /\ UNCHANGED << inputs, event, handlers, prState, messages, attempt,
                  last_exc, resp, comment, calls, posted >>

\* --------------------------------------------- the handler's closing part
PrPrefix == ":robot: AI assistant suggestion (please review carefully):\n\n"
PrSuffix == "\n\n_Note: This is an automated suggestion. All AI-generated content must be reviewed by a human before merging._"
IssuePrefix == ":robot: AI assistant triage suggestion (please review):\n\n"
IssueSuffix == "\n\n_Note: This is an automated suggestion. All AI-generated content must be reviewed by a human._"

\* The closing disclaimer left out of the comment.
CommentBody_NoDisclaimer(handler, text) ==
  IF handler = "pr" THEN PrPrefix \o text ELSE IssuePrefix \o text

CommentBody(handler, text) ==
  IF handler = "pr" THEN PrPrefix \o text \o PrSuffix
  ELSE IssuePrefix \o text \o IssueSuffix

\* the entity the running handler works on
Target ==
  LET h == handlers[Len(handlers)]
      e == IF h = "pr" THEN GetOr(event.pull_request, BareEntity)
           ELSE GetOr(event.issue, BareEntity)
  IN [repo |-> Get(event.full_name), number |-> Get(e.number)]

\* `if not suggestion: return`, else the comment is composed and
\* safe_post_comment_and_label entered (it returns at once without gh).
AfterChat ==
  /\ pc = "after_chat"
  /\ IF suggestion = None \/ suggestion = Some("")
     THEN Exit(0) /\ UNCHANGED comment
     ELSE /\ comment' = CommentBody(handlers[Len(handlers)], Get(suggestion))
          /\ IF ~GITHUB_TOKEN THEN Exit(0)
             ELSE pc' = "post_get_repo" /\ UNCHANGED exit_code
  /\ UNCHANGED << inputs, event, handlers, prState, messages, chatState,
                  calls, posted >>

\* ------------------------------------------- safe_post_comment_and_label
\* A failure of any step of the outer try is logged and the function
\* returns; the handler and main() then end normally.
\* The outer except clause left out: a failed step ends the run with status 1.
Attempted_Fatal(op, next) ==
  \E ok \in BOOLEAN :
    /\ calls' = Append(calls, Call(op, ok, 0))
    /\ IF ok THEN pc' = next /\ UNCHANGED exit_code ELSE Exit(1)

Attempted(op, next) ==
  \E ok \in BOOLEAN :
    /\ calls' = Append(calls, Call(op, ok, 0))
    /\ IF ok THEN pc' = next /\ UNCHANGED exit_code ELSE Exit(0)

PostGetRepo ==
  /\ pc = "post_get_repo"
  /\ Attempted("get_repo", "post_get_issue")
  /\ UNCHANGED << inputs, event, handlers, prState, messages, chatState,
                  comment, posted >>

PostGetIssue ==
  /\ pc = "post_get_issue"
  /\ Attempted("get_issue", "post_comment")
  /\ UNCHANGED << inputs, event, handlers, prState, messages, chatState,
                  comment, posted >>

\* create_comment in a try of its own, so that its failure is passed over.
PostCreateComment_Continues ==
  /\ pc = "post_comment"
  /\ \E ok \in BOOLEAN :
       /\ calls' = Append(calls, Call("create_comment", ok, 0))
       /\ posted' = (IF ok THEN Append(posted, [repo |-> Target.repo,
                                                number |-> Target.number,
                                                body |-> comment])
                     ELSE posted)
       /\ pc' = "label_list"
       /\ UNCHANGED exit_code
  /\ UNCHANGED << inputs, event, handlers, prState, messages, chatState,
                  comment >>

PostCreateComment ==
  /\ pc = "post_comment"
  /\ \E ok \in BOOLEAN :
       /\ calls' = Append(calls, Call("create_comment", ok, 0))
       /\ IF ok
          THEN /\ posted' = Append(posted, [repo |-> Target.repo,
                                            number |-> Target.number,
                                            body |-> comment])
               /\ pc' = "label_list"
               /\ UNCHANGED exit_code
          ELSE Exit(0) /\ UNCHANGED posted
  /\ UNCHANGED << inputs, event, handlers, prState, messages, chatState,
                  comment >>

\* labels = [l.name for l in repo.get_labels()]; ASSISTANT_LABEL in labels.
\* The call is recorded with 1 when the listing has the label, else with 0.
LabelList ==
  /\ pc = "label_list"
  /\ \E outcome \in {"fails", "present", "absent"} :
       /\ calls' = Append(calls, Call("get_labels", outcome # "fails",
                                      IF outcome = "present" THEN 1 ELSE 0))
       /\ IF outcome = "fails" THEN Exit(0)
          ELSE /\ pc' = (IF outcome = "present" THEN "label_attach"
                         ELSE "label_create")
               /\ UNCHANGED exit_code
  /\ UNCHANGED << inputs, event, handlers, prState, messages, chatState,
                  comment, posted >>

\* The attach placed after the inner try instead of inside it.
LabelCreate_AttachAnyway ==
  /\ pc = "label_create"
  /\ \E ok \in BOOLEAN :
       calls' = Append(calls, Call("create_label", ok, 0))
  /\ pc' = "label_attach"
  /\ UNCHANGED << inputs, event, handlers, prState, messages, chatState,
                  comment, posted, exit_code >>

\* repo.create_label in its own try: a failure skips the attach
LabelCreate ==
  /\ pc = "label_create"
  /\ Attempted("create_label", "label_attach")
  /\ UNCHANGED << inputs, event, handlers, prState, messages, chatState,
                  comment, posted >>

\* issue.add_to_labels: the last step, failing or not the function returns
LabelAttach ==
  /\ pc = "label_attach"
  /\ \E ok \in BOOLEAN :
       calls' = Append(calls, Call("add_to_labels", ok, 0))
  /\ Exit(0)
  /\ UNCHANGED << inputs, event, handlers, prState, messages, chatState,
                  comment, posted >>

Next ==
  \/ LoadEvent
  \/ Main
  \/ HandlePullRequest
  \/ PrGetRepo
  \/ FetchChangedFiles
  \/ SnippetStep
  \/ BuildPrPrompt
  \/ HandleIssue
  \/ ChatEnter
  \/ ChatAttempt
  \/ ChatSleep
  \/ ChatExhausted
  \/ AfterChat
  \/ PostGetRepo
  \/ PostGetIssue
  \/ PostCreateComment
  \/ LabelList
  \/ LabelCreate
  \/ LabelAttach

Spec == Init /\ [][Next]_vars

\* The process is one thread that runs to completion: as long as every
\* external call returns or fails, the step at hand is eventually taken.
SpecFair == Spec /\ WF_vars(Next)

\* ------------------------------------- the prompt builders on their own
\* A second specification applies build_pr_prompt and build_issue_prompt to
\* inputs drawn from wider sets than a run of the process meets above.
UnknownFieldTemplate == << Lit("Summarize "), Field("title"), Lit(" for "), Field("reviewer") >>
StrayBraceTemplate == << Lit("Summarize "), Field("title"), Lit(" "), Stray >>
Templates ==
  { <<>>, GoodPrTemplate, GoodIssueTemplate, UnknownFieldTemplate,
    StrayBraceTemplate }

PromptConfigs ==
  [ system_prompt : {None, Some("Be terse.")},
    pr_prompt : Templates,
    issue_prompt : Templates,
    sensitive_paths : {<<>>, << "secrets/*" >>},
    max_file_snippet_lines : {None} ]

PromptEntities ==
  [ title : {None, Some("Crash on startup")},
    body : {None, Some("It crashes.")},
    number : {Some(42)} ]

\* snippet mappings over the first k of the files: each entry is either
\* empty or the excerpt of the file's patch or content
SnippetOf(i, empty) ==
  [ path |-> RemoteFile(i).filename,
    snippet |-> IF empty THEN ""
                ELSE Excerpt(GetOr(RemoteFile(i).patch, RemoteFile(i).content), 2) ]
SnippetMaps(n) ==
  UNION { { [i \in 1..k |-> SnippetOf(i, e[i])] : e \in [1..k -> BOOLEAN] } :
          k \in 0..Min(n, MaxSnippetFiles) }

InitPrompt ==
  /\ eventFile = "ok"
  /\ \E e \in PromptEntities :
       payload = [pull_request |-> Some(e), issue |-> Some(e),
                  full_name |-> Some("acme/widget")]
  /\ GITHUB_TOKEN = FALSE
  /\ OPENAI_API_KEY = FALSE
  /\ RETRY_ATTEMPTS = MaxRetryAttempts
  /\ RETRY_BACKOFF = 2
  /\ MAX_SNIPPET_FILES = MaxSnippetFiles
  /\ assistant_config \in PromptConfigs
  /\ event = payload
  /\ pc = "prompt"
  /\ handlers = <<>>
  /\ repo_obj = FALSE
  /\ \E n \in 0..MaxChangedFiles :
       /\ changed_files = [i \in 1..n |-> RemoteFile(i).filename]
       /\ snippets \in SnippetMaps(n)
  /\ path_idx = 1
  /\ messages = <<>>
  /\ attempt = 0
  /\ last_exc = FALSE
  /\ suggestion = None
  /\ resp = None
  /\ comment = ""
  /\ calls = <<>>
  /\ posted = <<>>
  /\ exit_code = None

Built(built, at) ==
  IF built.raised
  THEN Exit(1) /\ UNCHANGED messages
  ELSE messages' = built.messages /\ pc' = at /\ UNCHANGED exit_code

ApplyBuildPrPrompt ==
  /\ pc = "prompt"
  /\ LET pr == Get(event.pull_request)
     IN Built(build_pr_prompt(GetOr(pr.title, ""), GetOr(pr.body, ""),
                              changed_files, snippets, Get(event.full_name),
                              Get(pr.number), assistant_config),
              "built_pr")
  /\ UNCHANGED << inputs, event, handlers, prState, chatState, comment,
                  calls, posted >>

ApplyBuildIssuePrompt ==
  /\ pc = "prompt"
  /\ LET issue == Get(event.issue)
     IN Built(build_issue_prompt(GetOr(issue.title, ""),
                                 GetOr(issue.body, ""), Get(event.full_name),
                                 Get(issue.number), assistant_config),
              "built_issue")
  /\ UNCHANGED << inputs, event, handlers, prState, chatState, comment,
                  calls, posted >>

NextPrompt == ApplyBuildPrPrompt \/ ApplyBuildIssuePrompt

SpecPrompt == InitPrompt /\ [][NextPrompt]_vars

\* ------------------------------------- get_file_snippet_for_pr on its own
\* A third specification applies get_file_snippet_for_pr once, to any one
\* of the changed files, under every line cap from 0 to MaxSnippetLines and
\* the default one.
SnippetConfigs ==
  { [NoConfig EXCEPT !.max_file_snippet_lines = c] :
      c \in {None} \cup {Some(k) : k \in 0..MaxSnippetLines} }

InitSnippet ==
  /\ eventFile = "ok"
  /\ payload = [pull_request |-> Some(FullEntity), issue |-> None,
                full_name |-> Some("acme/widget")]
  /\ GITHUB_TOKEN = TRUE
  /\ OPENAI_API_KEY = FALSE
  /\ RETRY_ATTEMPTS = MaxRetryAttempts
  /\ RETRY_BACKOFF = 2
  /\ MAX_SNIPPET_FILES = MaxSnippetFiles
  /\ assistant_config \in SnippetConfigs
  /\ event = payload
  /\ pc = "snippet"
  /\ handlers = << "pr" >>
  /\ repo_obj = TRUE
  /\ \E n \in 1..MaxChangedFiles :
       /\ changed_files = [i \in 1..n |-> RemoteFile(i).filename]
       /\ path_idx \in 1..n
  /\ snippets = <<>>
  /\ messages = <<>>
  /\ attempt = 0
  /\ last_exc = FALSE
  /\ suggestion = None
  /\ resp = None
  /\ comment = ""
  /\ calls = <<>>
  /\ posted = <<>>
  /\ exit_code = None

ApplyGetSnippet ==
  /\ pc = "snippet"
  /\ LET path == changed_files[path_idx]
         cap == GetOr(assistant_config.max_file_snippet_lines,
                      DefaultSnippetLines)
     IN \E outcome \in SnippetOutcomes :
          /\ snippets' = DictSet(snippets, path,
                                 get_file_snippet_for_pr(outcome, path, cap))
          /\ calls' = calls \o SnippetCalls(outcome, path)
  /\ pc' = "snippet_done"
  /\ UNCHANGED << inputs, event, handlers, repo_obj, changed_files, path_idx,
                  messages, chatState, comment, posted, exit_code >>

NextSnippet == ApplyGetSnippet

SpecSnippet == InitSnippet /\ [][NextSnippet]_vars

\* ================================================================ claims
IsChatOp(c) == c.op \in {"chat", "sleep"}
ChatCalls == SelectSeq(calls, IsChatOp)
Indices(ops) == {i \in 1..Len(calls) : calls[i].op \in ops}
Failed(ops) == {i \in Indices(ops) : ~calls[i].ok}
InChat == pc \in {"chat_enter", "chat_attempt", "chat_sleep"}
LabelOps == {"get_labels", "create_label", "add_to_labels"}

\* C1: with a model credential and RETRY_ATTEMPTS = N >= 1, when the
\* completion call succeeds on attempt N after failing on attempts 1..N-1,
\* call_openai_chat has returned the stripped reply of that call, and its
\* calls are attempt 1, sleep RETRY_BACKOFF^1, attempt 2, sleep
\* RETRY_BACKOFF^2, ..., attempt N: N-1 sleeps, each between two consecutive
\* attempts, none after the last attempt.
C1_RetryThenSuccess ==
  ( /\ OPENAI_API_KEY
    /\ RETRY_ATTEMPTS >= 1
    /\ \E i \in 1..Len(ChatCalls) :
         ChatCalls[i] = Call("chat", TRUE, RETRY_ATTEMPTS) )
  => /\ ~InChat
     /\ resp # None
     /\ suggestion = Some(Get(resp).text)
     /\ Len(ChatCalls) = 2 * RETRY_ATTEMPTS - 1
     /\ \A i \in 1..Len(ChatCalls) :
          IF i % 2 = 1
          THEN ChatCalls[i] = Call("chat", i = Len(ChatCalls), (i + 1) \div 2)
          ELSE ChatCalls[i] = Call("sleep", TRUE, Pow(RETRY_BACKOFF, i \div 2))

C1_Witness ==
  /\ pc = "after_chat"
  /\ RETRY_ATTEMPTS = 3
  /\ RETRY_BACKOFF = 3
  /\ ChatCalls = << Call("chat", FALSE, 1), Call("sleep", TRUE, 3),
                    Call("chat", FALSE, 2), Call("sleep", TRUE, 9),
                    Call("chat", TRUE, 3) >>
  /\ suggestion = Some("Likely a null dereference; request logs.")

\* C2: with a model credential and RETRY_ATTEMPTS = N >= 1, there are never
\* more than N completion call attempts; once N attempts have failed and the
\* last backoff is over, call_openai_chat has returned None after exactly N
\* attempts (the run goes on or ends with status 0); and nothing of the
\* retry loop, attempt or sleep, follows a successful attempt.
C2_RetryExhaustion ==
  (OPENAI_API_KEY /\ RETRY_ATTEMPTS >= 1)
  => /\ Cardinality(Indices({"chat"})) <= RETRY_ATTEMPTS
     /\ (~InChat /\ Indices({"chat"}) # {} /\ Failed({"chat"}) = Indices({"chat"}))
        => /\ Cardinality(Indices({"chat"})) = RETRY_ATTEMPTS
           /\ suggestion = None
           /\ pc = "after_chat" \/ exit_code = Some(0)
     /\ (Cardinality(Failed({"chat"})) = RETRY_ATTEMPTS /\ pc # "chat_sleep")
        => pc \in {"chat_attempt", "after_chat", "done"}
     /\ \A i \in Indices({"chat"}) :
          calls[i].ok => \A j \in Indices({"chat", "sleep"}) : j <= i

C2_Witness ==
  /\ pc = "after_chat"
  /\ OPENAI_API_KEY
  /\ RETRY_ATTEMPTS = 3
  /\ Cardinality(Failed({"chat"})) = 3
  /\ suggestion = None

\* C3 (as claimed): once call_openai_chat is over, every backoff sleep has
\* been followed by another completion call attempt, and there were at most
\* RETRY_ATTEMPTS - 1 sleeps.
C3_SleepOnlyBeforeAttempt ==
  (OPENAI_API_KEY /\ RETRY_ATTEMPTS >= 1 /\ ~InChat)
  => /\ \A i \in Indices({"sleep"}) : \E j \in Indices({"chat"}) : j > i
     /\ Cardinality(Indices({"sleep"})) <= RETRY_ATTEMPTS - 1

\* C4 (as claimed): without a model credential, a pull-request or issue
\* event leads to no completion call, no sleep, no comment and no label
\* call, and the process ends with status 0.
C4_NoModelCredential ==
  ( /\ ~OPENAI_API_KEY
    /\ eventFile = "ok"
    /\ payload.pull_request # None \/ payload.issue # None )
  => /\ Indices({"chat", "sleep", "create_comment"} \cup LabelOps) = {}
     /\ posted = <<>>
     /\ pc = "done" => exit_code = Some(0)

\* C5: a payload with neither a pull_request nor an issue key leads to no
\* external call at all, and the process ends with status 0.
C5_UnrecognizedEvent ==
  ( /\ eventFile = "ok"
    /\ payload.pull_request = None
    /\ payload.issue = None )
  => /\ calls = <<>>
     /\ handlers = <<>>
     /\ pc \in {"load", "main", "done"}
     /\ pc = "done" => exit_code = Some(0)

C5_Witness ==
  /\ eventFile = "ok"
  /\ payload = [pull_request |-> None, issue |-> None,
                full_name |-> Some("acme/widget")]
  /\ GITHUB_TOKEN
  /\ OPENAI_API_KEY
  /\ pc = "done"
  /\ exit_code = Some(0)

\* C6: at most one handler runs; it is the pull-request handler whenever the
\* payload has a pull_request key, also when it has an issue key as well,
\* and the issue handler only when pull_request is absent and issue present.
C6_PullRequestFirst ==
  /\ Len(handlers) <= 1
  /\ \A i \in 1..Len(handlers) :
       /\ handlers[i] = "pr" <=> event.pull_request # None
       /\ handlers[i] = "issue"
            <=> (event.pull_request = None /\ event.issue # None)
  /\ pc \in {"pr_start", "pr_get_repo", "pr_fetch", "pr_snippets"}
       => handlers = << "pr" >>
  /\ pc = "issue_start" => handlers = << "issue" >>
  /\ Len(messages) = 2 => handlers = << "issue" >>
  /\ Len(messages) = 3 => handlers = << "pr" >>

C6_Witness ==
  /\ payload.pull_request # None
  /\ payload.issue # None
  /\ handlers = << "pr" >>
  /\ Len(messages) = 3
  /\ pc = "done"

\* C7: every labeling call (get_labels, create_label, add_to_labels) comes
\* after a successful create_comment; and when a labeling call has failed,
\* the one comment is still posted, create_comment was called exactly once,
\* and the process does not end with a non-zero status.
C7_LabelingAfterComment ==
  /\ \A i \in Indices(LabelOps) :
       \E j \in Indices({"create_comment"}) : j < i /\ calls[j].ok
  /\ Failed(LabelOps) # {}
       => /\ Len(posted) = 1
          /\ posted[1].body = comment
          /\ Cardinality(Indices({"create_comment"})) = 1
          /\ exit_code # Some(1)
          /\ pc = "done"

C7_Witness ==
  /\ \E i \in Failed(LabelOps) : calls[i].op = "create_label"
  /\ Len(posted) = 1
  /\ pc = "done"
  /\ exit_code = Some(0)

\* C8 (as claimed): when a remote read made while gathering the changed
\* files and snippets has failed (a hosting-service read before any
\* completion call), the run does not end without the prompt having been
\* built, does not end without a completion call when a model credential is
\* configured and RETRY_ATTEMPTS >= 1, and does not end with a non-zero
\* status right after the failed read.
GatherReads == {"get_repo", "get_pull", "get_files", "get_contents"}
GatherFailed ==
  {i \in Failed(GatherReads) : \A j \in Indices({"chat"}) : i < j}
C8_RemoteReadNeverFatal ==
  (GatherFailed # {} /\ pc = "done")
  => /\ messages # <<>>
     /\ (OPENAI_API_KEY /\ RETRY_ATTEMPTS >= 1) => Indices({"chat"}) # {}
     /\ ~(exit_code = Some(1) /\ Len(calls) \in GatherFailed)

\* C9: a message sequence built by build_pr_prompt or build_issue_prompt is
\* never empty, starts with a system message and has no other system
\* message (every later message is a user message), whatever is missing
\* from the config, the title, the body, the changed files or the snippets
\* and whether or not the template formatted; neither builder raises.
C9_WellFormedMessages ==
  /\ pc \in {"built_pr", "built_issue", "chat_enter", "chat_attempt"}
       => messages # <<>>
  /\ pc = "done" /\ handlers = <<>> => exit_code # Some(1)
  /\ messages # <<>>
       => /\ messages[1].role = "system"
          /\ \A i \in 2..Len(messages) : messages[i].role = "user"
          /\ Cardinality({i \in 1..Len(messages) : messages[i].role = "system"}) = 1

C9_Witness ==
  /\ pc = "built_pr"
  /\ assistant_config.system_prompt = None
  /\ assistant_config.pr_prompt = StrayBraceTemplate
  /\ Get(payload.pull_request).title = None
  /\ Get(payload.pull_request).body = None
  /\ changed_files = <<>>
  /\ snippets = <<>>
  /\ Len(messages) = 3

\* C10 (as claimed): when the configured template fails to format, the
\* builder does not raise and its task message, the last message, is the
\* text it produces for the same title, body and changed files when no
\* template is configured.
Without(config, key) == [config EXCEPT ![key] = <<>>]
C10_FailedTemplateIsDefault ==
  LET pr == Get(event.pull_request)
      issue == Get(event.issue)
  IN /\ ( /\ pc = "built_pr"
          /\ FormatRaises(assistant_config.pr_prompt,
                          PrKwargs(GetOr(pr.title, ""), GetOr(pr.body, ""),
                                   changed_files, Get(event.full_name),
                                   Get(pr.number))) )
        => messages[Len(messages)].content
             = PrUserContent(GetOr(pr.title, ""), GetOr(pr.body, ""),
                             changed_files, Get(event.full_name),
                             Get(pr.number),
                             Without(assistant_config, "pr_prompt"))
     /\ ( /\ pc = "built_issue"
          /\ FormatRaises(assistant_config.issue_prompt,
                          IssueKwargs(GetOr(issue.title, ""),
                                      GetOr(issue.body, ""),
                                      Get(event.full_name),
                                      Get(issue.number))) )
        => messages[Len(messages)].content
             = IssueUserContent(GetOr(issue.title, ""), GetOr(issue.body, ""),
                                Get(event.full_name), Get(issue.number),
                                Without(assistant_config, "issue_prompt"))
     /\ exit_code # Some(1)

\* C11: with n changed files listed and MAX_SNIPPET_FILES = m, the snippet
\* loop never holds more than min(n, m) entries; when the prompt is built
\* the mapping has exactly min(n, m) entries whose keys are the first
\* min(n, m) changed files in listing order, snippet retrieval has been
\* invoked min(n, m) times (each invocation begins with a pull-request
\* lookup, one more was made by the file listing), and the context message
\* is the one built from all n paths.
C11_SnippetCap ==
  LET n == Len(changed_files)
      k == Min(n, MAX_SNIPPET_FILES)
  IN /\ Len(snippets) <= k
     /\ \A i \in 1..Len(snippets) : snippets[i].path = changed_files[i]
     /\ pc = "pr_snippets" => Len(snippets) = path_idx - 1
     /\ Cardinality(Indices({"get_pull"})) <= k + 1
     /\ (handlers = << "pr" >> /\ messages # <<>>)
        => /\ Len(snippets) = k
           /\ Cardinality(Indices({"get_pull"}))
                = k + (IF repo_obj THEN 1 ELSE 0)
           /\ changed_files = [i \in 1..n |-> RemoteFile(i).filename]
           /\ messages[2].content
                = ContextBlock([i \in 1..n |-> RemoteFile(i).filename],
                               snippets, assistant_config)

C11_Witness ==
  /\ pc = "chat_enter"
  /\ Len(changed_files) = 2
  /\ MAX_SNIPPET_FILES = 1
  /\ Len(snippets) = 1
  /\ snippets[1].path = "src/f1.py"
  /\ snippets[1].snippet # ""

\* C12: whichever hosting-service call of safe_post_comment_and_label fails
\* (any call made after the completion call succeeded), it is the last
\* external call of the run and the run ends with status 0; after a failed
\* create_comment in particular nothing is posted and no write follows.
PostCalls ==
  {i \in 1..Len(calls) :
     /\ calls[i].op \notin {"chat", "sleep"}
     /\ \E j \in 1..(i - 1) : calls[j].op = "chat" /\ calls[j].ok}
C12_RemoteWriteNeverFatal ==
  \A i \in PostCalls :
    ~calls[i].ok
    => /\ i = Len(calls)
       /\ pc = "done"
       /\ exit_code = Some(0)
       /\ calls[i].op \in {"get_repo", "get_issue", "create_comment"}
            => /\ posted = <<>>
               /\ Indices({"create_label", "add_to_labels"}) = {}

C12_Witness ==
  /\ PostCalls # {}
  /\ calls[Len(calls)] = Call("create_comment", FALSE, 0)
  /\ pc = "done"
  /\ exit_code = Some(0)

\* An exception has escaped a handler: the repository lookup of
\* handle_pull_request failed (a failed get_repo with no completion call
\* made), or call_openai_chat was entered (the prompt was built, a model
\* credential is set) with RETRY_ATTEMPTS < 1.
Escaped ==
  \/ /\ calls # <<>>
     /\ calls[Len(calls)] = Call("get_repo", FALSE, 0)
     /\ Indices({"chat"}) = {}
  \/ /\ OPENAI_API_KEY
     /\ RETRY_ATTEMPTS < 1
     /\ messages # <<>>

\* C13 (as claimed): the run ends with a non-zero status exactly when the
\* event file failed to parse or an exception escaped a handler.
C13_ExitStatusAsClaimed ==
  pc = "done"
  => (exit_code = Some(1) <=> (eventFile = "unparsable" \/ Escaped))

\* C13 (amended): the run ends with status 1 exactly when an exception
\* escaped a handler, and with status 0 otherwise; an event file that does
\* not parse is read as an empty payload and the run ends with status 0
\* without any external call.
C13_ExitStatus ==
  pc = "done"
  => /\ exit_code \in {Some(0), Some(1)}
     /\ exit_code = Some(1) <=> Escaped
     /\ eventFile # "ok" => exit_code = Some(0) /\ calls = <<>>

C13_Witness ==
  /\ eventFile = "unparsable"
  /\ event = EmptyEvent
  /\ pc = "done"
  /\ exit_code = Some(0)

\* C14 (as claimed): for every RETRY_ATTEMPTS, 0 included, call_openai_chat
\* returns the reply or None and never raises: once the prompt is built,
\* the run does not end with a non-zero status.
C14_ChatNeverRaises ==
  (messages # <<>> /\ pc = "done") => exit_code = Some(0)

\* C15: create_comment is called at most once and at most one comment is
\* posted; each such call comes after a completion call that succeeded with
\* a reply that is not empty once stripped; the posted body is the prefix of
\* the handler that ran (the pull-request one whenever the payload has a
\* pull_request key), that reply as call_openai_chat returned it, and the
\* handler's disclaimer; its target is the repository name and the number
\* of the payload's entity.
C15_OneComment ==
  LET isPr == payload.pull_request # None
      entity == IF isPr THEN payload.pull_request ELSE payload.issue
  IN /\ Cardinality(Indices({"create_comment"})) <= 1
     /\ Len(posted) <= 1
     /\ Len(posted) = Cardinality({i \in Indices({"create_comment"}) : calls[i].ok})
     /\ \A i \in Indices({"create_comment"}) :
          /\ \E j \in 1..(i - 1) : calls[j].op = "chat" /\ calls[j].ok
          /\ resp # None
          /\ Get(resp).text # ""
          /\ suggestion = Some(Get(resp).text)
     /\ \A i \in 1..Len(posted) :
          /\ posted[i].body
               = (IF isPr THEN PrPrefix ELSE IssuePrefix)
                 \o Get(resp).text
                 \o (IF isPr THEN PrSuffix ELSE IssueSuffix)
          /\ posted[i].repo = Get(payload.full_name)
          /\ posted[i].number = Get(Get(entity).number)

C15_Witness ==
  /\ payload.pull_request = None
  /\ Len(posted) = 1
  /\ posted[1].repo = "acme/widget"
  /\ posted[1].number = 42
  /\ posted[1].body
       = IssuePrefix \o "Likely a null dereference; request logs." \o IssueSuffix
  /\ pc = "done"

\* C16: create_label is called only right after a label listing that lacks
\* the label; add_to_labels is called only right after a listing that has
\* the label (no create call in the run) or right after a successful
\* create_label; after a failed create_label no attach follows; and a run
\* has at most one create and one attach call.
C16_LabelCreateThenAttach ==
  /\ Cardinality(Indices({"create_label"})) <= 1
  /\ Cardinality(Indices({"add_to_labels"})) <= 1
  /\ \A i \in Indices({"create_label"}) :
       /\ i > 1
       /\ calls[i - 1] = Call("get_labels", TRUE, 0)
       /\ ~calls[i].ok => Indices({"add_to_labels"}) = {}
  /\ \A i \in Indices({"add_to_labels"}) :
       /\ i > 1
       /\ \/ /\ calls[i - 1] = Call("get_labels", TRUE, 1)
             /\ Indices({"create_label"}) = {}
          \/ calls[i - 1] = Call("create_label", TRUE, 0)

C16_Witness ==
  /\ Len(calls) >= 3
  /\ calls[Len(calls) - 2] = Call("get_labels", TRUE, 0)
  /\ calls[Len(calls) - 1] = Call("create_label", TRUE, 0)
  /\ calls[Len(calls)].op = "add_to_labels"
  /\ pc = "done"

\* C17 (as claimed): without a hosting-service credential no hosting-service
\* call is made, pull-request handling goes on with an empty changed-file
\* list and an empty snippet mapping, and the run ends with status 0.
HostingOps ==
  {"get_repo", "get_pull", "get_files", "get_contents", "get_issue",
   "create_comment", "get_labels", "create_label", "add_to_labels"}
C17_NoHostingCredential ==
  ~GITHUB_TOKEN
  => /\ Indices(HostingOps) = {}
     /\ posted = <<>>
     /\ changed_files = <<>>
     /\ snippets = <<>>
     /\ (handlers = << "pr" >> /\ messages # <<>>)
          => messages[2].content = ContextBlock(<<>>, <<>>, assistant_config)
     /\ pc = "done" => exit_code = Some(0)

\* C18: one call of get_file_snippet_for_pr for the i-th changed file with
\* line cap `cap` returns a value (it does not raise); the value is "" when a
\* retrieval step failed or the listing has no record of the file; when the
\* record has a patch the value is the first min(cap, length) lines of the
\* patch and the content is not fetched; when it has none the content is
\* fetched and the value is the first min(cap, length) lines of the content.
C18_SnippetOrEmpty ==
  pc = "snippet_done"
  => LET file == RemoteFile(path_idx)
         cap == GetOr(assistant_config.max_file_snippet_lines, 40)
         text == snippets[1].snippet
         FirstLines(lines) ==
           Join(SubSeq(lines, 1, IF cap < Len(lines) THEN cap ELSE Len(lines)),
                "\n")
         listed == {j \in Indices({"get_files"}) : calls[j].ok}
         matched == \E j \in listed : calls[j].arg = 1
     IN /\ Len(snippets) = 1
        /\ snippets[1].path = changed_files[path_idx]
        /\ exit_code = None
        /\ Failed(HostingOps) # {} => text = ""
        /\ ~matched => text = "" /\ Indices({"get_contents"}) = {}
        /\ (matched /\ file.patch # None)
             => /\ text = FirstLines(Get(file.patch))
                /\ Indices({"get_contents"}) = {}
        /\ (matched /\ file.patch = None)
             => /\ Cardinality(Indices({"get_contents"})) = 1
                /\ Failed({"get_contents"}) = {}
                     => text = FirstLines(file.content)

C18_Witness ==
  /\ pc = "snippet_done"
  /\ path_idx = 2
  /\ assistant_config.max_file_snippet_lines = Some(2)
  /\ calls = << Call("get_pull", TRUE, 0), Call("get_files", TRUE, 1),
                Call("get_contents", TRUE, 0) >>
  /\ snippets[1].snippet = "import os\n"

\* C19: when every external call returns or fails, every run eventually
\* ends, with status 0 or 1, and at no point has it made more than
\* RETRY_ATTEMPTS completion call attempts.
C19_Terminates ==
  /\ <>(pc = "done" /\ exit_code \in {Some(0), Some(1)})
  /\ [](Cardinality(Indices({"chat"})) <= RETRY_ATTEMPTS)

C19_Witness ==
  /\ pc = "done"
  /\ exit_code = Some(0)
  /\ RETRY_ATTEMPTS = 3
  /\ Cardinality(Indices({"chat"})) = 3
  /\ Cardinality(Indices({"sleep"})) = 3

====
